---- MODULE Spec2Model ----
(***************************************************************************)
(* Multi-model chat server: the in-memory store (server/storage.ts), the   *)
(* model registry, the web-search helper (server/webSearch.ts) and the     *)
(* POST /api/chat fan-out (server/routes.ts), as a state machine.          *)
(*                                                                         *)
(* One step of the model is one macrotask of the Node.js event loop: a     *)
(* handler runs from the arrival of a request, or from the settling of a   *)
(* network call it awaits, up to its next await on the network.  Awaits on *)
(* MemStorage methods resolve in microtasks of the same macrotask, so they *)
(* are part of the same step.                                              *)
(***************************************************************************)
EXTENDS Integers, Sequences, FiniteSets, TLC

VARIABLES
    storage,   \* the MemStorage singleton: its five private fields
    now,       \* the wall clock read by new Date() and Date.now()
    env,       \* process.env: is GOOGLE_SEARCH_API_KEY / _ENGINE_ID set
    req,       \* the requests in flight, one per slot
    issued     \* history: the identifiers handed out, in order, and the
               \* messages written and not deleted since, in order

vars == <<storage, now, env, req, issued>>

----------------------------------------------------------------------------
(* Bounds of the model *)

\* conversations ever created
MaxConv == 2
\* messages ever created
MaxMsg == 4
\* length of a request's modelIds list
MaxModels == 2
\* ticks of the wall clock
MaxClock == 1
\* results a search backend delivers
MaxItems == 2

\* the cap handleChat passes to searchWeb
SearchCap == 5
\* the title keeps this many characters of the message
TitleLen == 50

\* the chat requests that can be in flight at once
Slots == {"r1"}
PairSlots == {"r1", "r2"}

----------------------------------------------------------------------------
(* Values *)

\* null / undefined, and a present value
Null == {}
Some(v) == {v}
Val(o) == CHOOSE v \in o : TRUE

Min(a, b) == IF a <= b THEN a ELSE b

Range(s) == {s[i] : i \in DOMAIN s}

\* String.prototype.startsWith
StartsWith(s, p) == Len(s) >= Len(p) /\ SubSeq(s, 1, Len(p)) = p

\* String.prototype.slice(0, n)
Slice0(s, n) == SubSeq(s, 1, Min(n, Len(s)))

\* Array.prototype.join over strings
RECURSIVE Join(_, _)
Join(ss, sep) ==
    IF Len(ss) = 0 THEN ""
    ELSE IF Len(ss) = 1 THEN ss[1]
    ELSE ss[1] \o sep \o Join(Tail(ss), sep)

\* Sequences over S of length at most n
SeqsUpTo(S, n) == UNION {[1..k -> S] : k \in 0..n}

----------------------------------------------------------------------------
(* MemStorage (server/storage.ts) *)

\* the built-in models the constructor seeds the registry with
defaultModels == <<
    [id |-> "gpt-4.1", name |-> "GPT-4.1", provider |-> "openai", isCustom |-> FALSE],
    [id |-> "gpt-4.1-mini", name |-> "GPT-4.1 Mini", provider |-> "openai", isCustom |-> FALSE],
    [id |-> "gpt-4.1-nano", name |-> "GPT-4.1 Nano", provider |-> "openai", isCustom |-> FALSE],
    [id |-> "gpt-4o", name |-> "GPT-4o", provider |-> "openai", isCustom |-> FALSE],
    [id |-> "claude-sonnet-4-20250514", name |-> "Claude Sonnet 4", provider |-> "anthropic", isCustom |-> FALSE],
    [id |-> "claude-3-5-sonnet-20241022", name |-> "Claude 3.5 Sonnet", provider |-> "anthropic", isCustom |-> FALSE],
    [id |-> "claude-3-5-haiku-20241022", name |-> "Claude 3.5 Haiku", provider |-> "anthropic", isCustom |-> FALSE],
    [id |-> "gemini-2.5-flash", name |-> "Gemini 2.5 Flash", provider |-> "google", isCustom |-> FALSE],
    [id |-> "gemini-2.5-pro", name |-> "Gemini 2.5 Pro", provider |-> "google", isCustom |-> FALSE],
    [id |-> "gemini-2.0-flash", name |-> "Gemini 2.0 Flash", provider |-> "google", isCustom |-> FALSE],
    [id |-> "gemini-2.0-flash-lite", name |-> "Gemini 2.0 Flash Lite", provider |-> "google", isCustom |-> FALSE] >>

\* modelConfigs after initializeDefaultModels: a map keyed by model id
initializeDefaultModels ==
    [id \in {defaultModels[i].id : i \in DOMAIN defaultModels} |->
        LET m == CHOOSE m \in Range(defaultModels) : m.id = id
        IN [id |-> m.id, name |-> m.name, provider |-> m.provider,
            isCustom |-> m.isCustom, config |-> Null]]

\* new MemStorage()
MemStorage ==
    [conversations |-> << >>,
     messages |-> << >>,
     modelConfigs |-> initializeDefaultModels,
     conversationIdCounter |-> 1,
     messageIdCounter |-> 1]

\* Map.set(key, value): the conversations map is a function on its keys
MapSet(map, key, value) ==
    [k \in DOMAIN map \cup {key} |-> IF k = key THEN value ELSE map[k]]

\* Map.delete(key)
MapDelete(map, key) == [k \in DOMAIN map \ {key} |-> map[k]]

\* createConversation with a plausible bug: the identifier is taken from the
\* size of the map instead of the counter
createConversationBySize(st, insertConversation, t) ==
    LET id == Cardinality(DOMAIN st.conversations) + 1
        conversation == [id |-> id, title |-> insertConversation.title,
                         createdAt |-> t, updatedAt |-> t]
    IN [store |-> [st EXCEPT !.conversationIdCounter = @ + 1,
                             !.conversations = MapSet(@, id, conversation)],
        value |-> conversation]

\* createConversation(insertConversation) at time t: the store after it, and
\* the conversation it returns
createConversation(st, insertConversation, t) ==
    LET id == st.conversationIdCounter
        conversation == [id |-> id, title |-> insertConversation.title,
                         createdAt |-> t, updatedAt |-> t]
    IN [store |-> [st EXCEPT !.conversationIdCounter = id + 1,
                             !.conversations = MapSet(@, id, conversation)],
        value |-> conversation]

\* getConversation(id): the conversation, or Null (undefined)
getConversation(st, id) ==
    IF id \in DOMAIN st.conversations THEN Some(st.conversations[id]) ELSE Null

\* updateConversation with a plausible bug: the spreads are in the other
\* order, so the stored fields win over the updates
updateConversationExistingWins(st, id, updates, t) ==
    IF id \notin DOMAIN st.conversations THEN [store |-> st, value |-> Null]
    ELSE LET existing == st.conversations[id]
             updated == [id |-> existing.id,
                         title |-> existing.title,
                         createdAt |-> existing.createdAt,
                         updatedAt |-> t]
         IN [store |-> [st EXCEPT !.conversations = MapSet(@, id, updated)],
             value |-> Some(updated)]

\* updateConversation(id, updates) at time t; updates.title is Null when the
\* patch has no title
updateConversation(st, id, updates, t) ==
    IF id \notin DOMAIN st.conversations THEN [store |-> st, value |-> Null]
    ELSE LET existing == st.conversations[id]
             updated == [id |-> existing.id,
                         title |-> IF updates.title = Null THEN existing.title
                                   ELSE Val(updates.title),
                         createdAt |-> existing.createdAt,
                         updatedAt |-> t]
         IN [store |-> [st EXCEPT !.conversations = MapSet(@, id, updated)],
             value |-> Some(updated)]

\* deleteConversation with a plausible bug: the cascade over the messages is
\* left out
deleteConversationNoCascade(st, id) ==
    [store |-> [st EXCEPT !.conversations = MapDelete(@, id)],
     value |-> id \in DOMAIN st.conversations]

\* deleteConversation(id): the store after it, and the boolean it returns
deleteConversation(st, id) ==
    [store |-> [st EXCEPT !.conversations = MapDelete(@, id),
                          !.messages = SelectSeq(@, LAMBDA m : m.conversationId # id)],
     value |-> id \in DOMAIN st.conversations]

\* createMessage with a plausible side effect: the conversation the message
\* belongs to gets its updatedAt refreshed
createMessageTouching(st, insertMessage, t) ==
    LET id == st.messageIdCounter
        cid == insertMessage.conversationId
        message == [id |-> id,
                    conversationId |-> cid,
                    role |-> insertMessage.role,
                    content |-> insertMessage.content,
                    modelId |-> insertMessage.modelId,
                    provider |-> insertMessage.provider,
                    responseTime |-> insertMessage.responseTime,
                    createdAt |-> t]
    IN [store |-> [st EXCEPT
                      !.messageIdCounter = id + 1,
                      !.messages = Append(@, message),
                      !.conversations =
                          IF cid \in DOMAIN @
                          THEN [@ EXCEPT ![cid].updatedAt = t] ELSE @],
        value |-> message]

\* createMessage with a plausible bug: the provider of the message is not
\* stored
createMessageNoProvider(st, insertMessage, t) ==
    LET id == st.messageIdCounter
        message == [id |-> id,
                    conversationId |-> insertMessage.conversationId,
                    role |-> insertMessage.role,
                    content |-> insertMessage.content,
                    modelId |-> insertMessage.modelId,
                    provider |-> Null,
                    responseTime |-> insertMessage.responseTime,
                    createdAt |-> t]
    IN [store |-> [st EXCEPT !.messageIdCounter = id + 1,
                             !.messages = Append(@, message)],
        value |-> message]

\* createMessage(insertMessage) at time t.  The messages map is kept as the
\* sequence of its values in insertion order, which is a Map's iteration order.
createMessage(st, insertMessage, t) ==
    LET id == st.messageIdCounter
        message == [id |-> id,
                    conversationId |-> insertMessage.conversationId,
                    role |-> insertMessage.role,
                    content |-> insertMessage.content,
                    modelId |-> insertMessage.modelId,
                    provider |-> insertMessage.provider,
                    responseTime |-> insertMessage.responseTime,
                    createdAt |-> t]
    IN [store |-> [st EXCEPT !.messageIdCounter = id + 1,
                             !.messages = Append(@, message)],
        value |-> message]

\* SortByCreatedAt with a plausible bug: an unstable sort, which places an
\* element before the elements of equal createdAt
RECURSIVE SortByCreatedAtUnstable(_)
SortByCreatedAtUnstable(ms) ==
    IF Len(ms) = 0 THEN << >>
    ELSE LET sorted == SortByCreatedAtUnstable(SubSeq(ms, 1, Len(ms) - 1))
             x == ms[Len(ms)]
             k == Cardinality({i \in DOMAIN sorted : sorted[i].createdAt < x.createdAt})
         IN SubSeq(sorted, 1, k) \o <<x>> \o SubSeq(sorted, k + 1, Len(sorted))

\* Array.prototype.sort((a, b) => a.createdAt - b.createdAt): a stable sort,
\* here by insertion of each element after the last one not greater than it
RECURSIVE SortByCreatedAt(_)
SortByCreatedAt(ms) ==
    IF Len(ms) = 0 THEN << >>
    ELSE LET sorted == SortByCreatedAt(SubSeq(ms, 1, Len(ms) - 1))
             x == ms[Len(ms)]
             k == Cardinality({i \in DOMAIN sorted : sorted[i].createdAt <= x.createdAt})
         IN SubSeq(sorted, 1, k) \o <<x>> \o SubSeq(sorted, k + 1, Len(sorted))

\* getMessagesByConversation with a plausible bug: the comparator is the
\* other way round, newest first
getMessagesByConversationNewestFirst(st, conversationId) ==
    LET ms == SortByCreatedAt(SelectSeq(st.messages,
                                        LAMBDA m : m.conversationId = conversationId))
        times == {ms[k].createdAt : k \in DOMAIN ms}
        rank(m) == Cardinality({t \in times : t > m.createdAt})
        before(k) == {j \in DOMAIN ms :
                         \/ rank(ms[j]) < rank(ms[k])
                         \/ (rank(ms[j]) = rank(ms[k]) /\ j < k)}
    IN [p \in DOMAIN ms |-> ms[CHOOSE k \in DOMAIN ms : Cardinality(before(k)) = p - 1]]

\* getMessagesByConversation(conversationId)
getMessagesByConversation(st, conversationId) ==
    SortByCreatedAt(SelectSeq(st.messages, LAMBDA m : m.conversationId = conversationId))

\* createModelConfig(config)
createModelConfig(st, config) ==
    LET modelConfig == [id |-> config.id, name |-> config.name,
                        provider |-> config.provider,
                        isCustom |-> config.isCustom, config |-> Null]
    IN [store |-> [st EXCEPT !.modelConfigs = MapSet(@, config.id, modelConfig)],
        value |-> modelConfig]

\* deleteModelConfig with a plausible bug: it reports success whether or not
\* the entry was there
deleteModelConfigAlwaysTrue(st, id) ==
    [store |-> [st EXCEPT !.modelConfigs = MapDelete(@, id)],
     value |-> TRUE]

\* deleteModelConfig(id)
deleteModelConfig(st, id) ==
    [store |-> [st EXCEPT !.modelConfigs = MapDelete(@, id)],
     value |-> id \in DOMAIN st.modelConfigs]

\* getModelProvider with a plausible bug: the registry is consulted before
\* the prefixes
getModelProviderRegistryFirst(st, modelId) ==
    IF modelId \in DOMAIN st.modelConfigs /\ st.modelConfigs[modelId].provider # ""
    THEN st.modelConfigs[modelId].provider
    ELSE IF StartsWith(modelId, "gpt-") THEN "openai"
    ELSE IF StartsWith(modelId, "claude-") THEN "anthropic"
    ELSE IF StartsWith(modelId, "gemini-") THEN "google"
    ELSE "unknown"

\* getModelProvider(modelId) of routes.ts
getModelProvider(st, modelId) ==
    IF StartsWith(modelId, "gpt-") THEN "openai"
    ELSE IF StartsWith(modelId, "claude-") THEN "anthropic"
    ELSE IF StartsWith(modelId, "gemini-") THEN "google"
    ELSE IF modelId \in DOMAIN st.modelConfigs /\ st.modelConfigs[modelId].provider # ""
         THEN st.modelConfigs[modelId].provider
         ELSE "unknown"

----------------------------------------------------------------------------
(* Web search (server/webSearch.ts) *)

\* What a search backend delivers: Null when the transport fails, else the
\* first k elements of the page (or of the API's items); the second has no
\* snippet, the first a protocol-relative URL.
PageItem(j) ==
    [title |-> IF j = 1 THEN "T1" ELSE IF j = 2 THEN "T2" ELSE "T3",
     url |-> IF j = 1 THEN "//a.example" ELSE "https://b.example",
     snippet |-> IF j = 2 THEN "" ELSE "S"]

BackendReplies == {Null} \cup {Some([j \in 1..k |-> PageItem(j)]) : k \in 0..MaxItems}

\* the loop of DuckDuckGoSearch.search over the '.web-result' elements
RECURSIVE ScrapeResults(_, _, _)
ScrapeResults(elements, results, maxResults) ==
    IF Len(elements) = 0 \/ Len(results) >= maxResults THEN results
    ELSE LET e == Head(elements)
             kept == IF e.title # "" /\ e.url # "" /\ e.snippet # ""
                     THEN Append(results,
                                 [title |-> e.title,
                                  url |-> IF StartsWith(e.url, "//")
                                          THEN "https:" \o e.url ELSE e.url,
                                  snippet |-> e.snippet])
                     ELSE results
         IN ScrapeResults(Tail(elements), kept, maxResults)

\* DuckDuckGoSearch.search: [threw, value]
DuckDuckGoSearch(reply, maxResults) ==
    IF reply = Null THEN [threw |-> FALSE, value |-> << >>]
    ELSE [threw |-> FALSE, value |-> ScrapeResults(Val(reply), << >>, maxResults)]

\* GoogleSearch.search with the key and engine id the instance holds
GoogleSearch(apiKey, searchEngineId, reply, maxResults) ==
    IF ~apiKey \/ ~searchEngineId THEN [threw |-> TRUE, value |-> << >>]
    ELSE IF reply = Null THEN [threw |-> FALSE, value |-> << >>]
    ELSE [threw |-> FALSE,
          value |-> [j \in DOMAIN Val(reply) |->
                        [title |-> Val(reply)[j].title,
                         url |-> Val(reply)[j].url,
                         snippet |-> Val(reply)[j].snippet]]]

\* createSearchService with a plausible bug: the structured API is selected
\* as soon as the key is set, whether or not the engine id is
createSearchServiceKeyOnly(e) ==
    IF e.GOOGLE_SEARCH_API_KEY THEN "google" ELSE "duckduckgo"

\* createSearchService(): which backend the environment selects
createSearchService(e) ==
    IF e.GOOGLE_SEARCH_API_KEY /\ e.GOOGLE_SEARCH_ENGINE_ID THEN "google" ELSE "duckduckgo"

\* searchWeb(query, maxResults), given what the selected backend delivers
searchWeb(e, reply, maxResults) ==
    IF createSearchService(e) = "google"
    THEN GoogleSearch(e.GOOGLE_SEARCH_API_KEY, e.GOOGLE_SEARCH_ENGINE_ID, reply, maxResults)
    ELSE DuckDuckGoSearch(reply, maxResults)

----------------------------------------------------------------------------
(* POST /api/chat (server/routes.ts) *)

\* chatRequestSchema with a plausible bug: modelIds declared without .min(1)
chatRequestSchemaNoMin(body) ==
    IF Len(body.message) < 1 THEN Null
    ELSE Some([message |-> body.message,
               modelIds |-> body.modelIds,
               conversationId |-> body.conversationId,
               enableWebSearch |-> IF body.enableWebSearch = Null THEN FALSE
                                   ELSE Val(body.enableWebSearch)])

\* chatRequestSchema.parse(body): Null for a ZodError, else the validated data
chatRequestSchema(body) ==
    IF Len(body.message) < 1 \/ Len(body.modelIds) < 1 THEN Null
    ELSE Some([message |-> body.message,
               modelIds |-> body.modelIds,
               conversationId |-> body.conversationId,
               enableWebSearch |-> IF body.enableWebSearch = Null THEN FALSE
                                   ELSE Val(body.enableWebSearch)])

\* JavaScript truthiness of an optional number
Truthy(n) == n # Null /\ Val(n) # 0

\* TitleOf with a plausible bug: the comparison is >= in place of >
TitleOfOffByOne(message) ==
    Slice0(message, TitleLen) \o (IF Len(message) >= TitleLen THEN "..." ELSE "")

\* the title of a conversation created for a message
TitleOf(message) ==
    Slice0(message, TitleLen) \o (IF Len(message) > TitleLen THEN "..." ELSE "")

\* "Create or get conversation": [found, store, conversation]
ResolveConversation(st, data, t) ==
    IF Truthy(data.conversationId)
    THEN LET c == getConversation(st, Val(data.conversationId))
         IN IF c = Null
            THEN [found |-> FALSE, created |-> FALSE, store |-> st, conversation |-> Null]
            ELSE [found |-> TRUE, created |-> FALSE, store |-> st, conversation |-> c]
    ELSE LET c == createConversation(st, [title |-> TitleOf(data.message)], t)
         IN [found |-> TRUE, created |-> TRUE, store |-> c.store,
             conversation |-> Some(c.value)]

\* EnhancedMessage with a plausible bug: the test for an empty result list is
\* left out
EnhancedMessageAlways(enableWebSearch, message, searchResults) ==
    IF enableWebSearch
    THEN message \o "\n\nContext from web search:\n"
         \o Join([j \in DOMAIN searchResults |->
                    searchResults[j].title \o ": " \o searchResults[j].snippet], "\n")
    ELSE message

\* the prompt every model of the request is sent
EnhancedMessage(enableWebSearch, message, searchResults) ==
    IF enableWebSearch /\ Len(searchResults) > 0
    THEN message \o "\n\nContext from web search:\n"
         \o Join([j \in DOMAIN searchResults |->
                    searchResults[j].title \o ": " \o searchResults[j].snippet], "\n")
    ELSE message

\* searchResults: enableWebSearch ? searchResults : undefined
WithSearchResults(entry, enableWebSearch, searchResults) ==
    IF enableWebSearch THEN entry @@ [searchResults |-> searchResults] ELSE entry

Providers == {"openai", "anthropic", "google"}

\* what a vendor call ends with: a reply text (maybe empty) or a thrown error
VendorOutcomes ==
    {[ok |-> TRUE, text |-> "hi!"], [ok |-> TRUE, text |-> ""],
     [ok |-> FALSE, message |-> "rate limited"]}

\* sendToModel's extraction of the reply text
ExtractText(text) == IF text = "" THEN "No response" ELSE text

\* A request slot with no request in it.  Of a request in flight the slot holds
\* the handler's local variables and, as history, what it was sent (body), what
\* the search backend delivered (searchReply), what each vendor call ended
\* with (calls[i].outcome) and the messages createMessage returned to it
\* (written).
IdleRequest ==
    [pc |-> "idle", body |-> Null, status |-> 0, conversationId |-> 0,
     created |-> FALSE, message |-> "", modelIds |-> << >>,
     enableWebSearch |-> FALSE, searches |-> 0, searchReply |-> Null,
     searchResults |-> << >>,
     calls |-> << >>, results |-> << >>, envelope |-> Null, written |-> << >>]

\* ErrorEntry with a plausible bug: the catch branch reports a fixed text in
\* place of the message of the error it caught
ErrorEntryFixedText(rq, i, responseTime, message) ==
    WithSearchResults([modelId |-> rq.modelIds[i], content |-> "",
                       responseTime |-> responseTime, error |-> "Unknown error"],
                      rq.enableWebSearch, rq.searchResults)

\* the value the async callback of modelIds.map returns when sendToModel threw
ErrorEntry(rq, i, responseTime, message) ==
    WithSearchResults([modelId |-> rq.modelIds[i], content |-> "",
                       responseTime |-> responseTime, error |-> message],
                      rq.enableWebSearch, rq.searchResults)

\* the value it returns when sendToModel answered
SuccessEntry(rq, i, responseTime, response) ==
    WithSearchResults([modelId |-> rq.modelIds[i], content |-> response,
                       responseTime |-> responseTime],
                      rq.enableWebSearch, rq.searchResults)

\* AssembleEnvelope with a plausible bug: the failed dispatches are left out
AssembleEnvelopeSkipFailed(conversationId, results) ==
    [conversationId |-> conversationId,
     responses |-> LET all == [i \in DOMAIN results |-> Val(results[i]).value]
                   IN SelectSeq(all, LAMBDA e : "error" \notin DOMAIN e)]

\* responses.map(result => ...) over the Promise.allSettled results
AssembleEnvelope(conversationId, results) ==
    [conversationId |-> conversationId,
     responses |-> [i \in DOMAIN results |->
                      IF Val(results[i]).status = "fulfilled"
                      THEN Val(results[i]).value
                      ELSE [modelId |-> "", content |-> "", responseTime |-> 0,
                            error |-> Val(results[i]).reason]]]

\* Respond with a plausible bug: Promise.race in place of Promise.allSettled,
\* so the request is answered as soon as one dispatch has settled
RespondFirstSettled(rq) ==
    LET settled == SelectSeq(rq.results, LAMBDA x : x # Null)
    IN IF Len(settled) > 0
       THEN [rq EXCEPT !.pc = "done", !.status = 200,
                       !.envelope = Some(AssembleEnvelope(rq.conversationId, settled))]
       ELSE rq

\* Respond with a plausible bug: Promise.all in place of Promise.allSettled
\* over callbacks that rethrow, so the first failure fails the request
RespondFailFast(rq) ==
    IF \E i \in DOMAIN rq.results :
            rq.results[i] # Null /\ "error" \in DOMAIN Val(rq.results[i]).value
    THEN [rq EXCEPT !.pc = "done", !.status = 500]
    ELSE IF \A i \in DOMAIN rq.results : rq.results[i] # Null
    THEN [rq EXCEPT !.pc = "done", !.status = 200,
                    !.envelope = Some(AssembleEnvelope(rq.conversationId, rq.results))]
    ELSE rq

\* res.json(chatResponse) once Promise.allSettled has resolved
Respond(rq) ==
    IF \A i \in DOMAIN rq.results : rq.results[i] # Null
    THEN [rq EXCEPT !.pc = "done", !.status = 200,
                    !.envelope = Some(AssembleEnvelope(rq.conversationId, rq.results))]
    ELSE rq

\* StartDispatches with a plausible bug: a for loop that awaits each call in
\* turn, so only the first call is started
StartDispatchesSequential(st, rq, t) ==
    LET prompt == EnhancedMessage(rq.enableWebSearch, rq.message, rq.searchResults)
        provider(i) == getModelProvider(st, rq.modelIds[i])
    IN Respond(
        [rq EXCEPT
            !.pc = "dispatching",
            !.calls = [i \in DOMAIN rq.modelIds |->
                        [state |-> IF provider(i) \notin Providers THEN "settled"
                                   ELSE IF i = 1 THEN "pending" ELSE "waiting",
                         invoked |-> provider(i) \in Providers /\ i = 1,
                         provider |-> provider(i),
                         prompt |-> prompt,
                         startTime |-> t,
                         outcome |-> Null]],
            !.results = [i \in DOMAIN rq.modelIds |->
                        IF provider(i) \in Providers THEN Null
                        ELSE Some([status |-> "fulfilled",
                                   value |-> ErrorEntry(rq, i, t - t,
                                       "Unknown provider for model: " \o rq.modelIds[i])])]])

\* StartDispatches with a plausible bug: the enriched prompt is built for the
\* first model only
StartDispatchesFirstOnly(st, rq, t) ==
    LET prompt(i) == IF i = 1
                     THEN EnhancedMessage(rq.enableWebSearch, rq.message, rq.searchResults)
                     ELSE rq.message
        provider(i) == getModelProvider(st, rq.modelIds[i])
    IN Respond(
        [rq EXCEPT
            !.pc = "dispatching",
            !.calls = [i \in DOMAIN rq.modelIds |->
                        [state |-> IF provider(i) \in Providers THEN "pending" ELSE "settled",
                         invoked |-> provider(i) \in Providers,
                         provider |-> provider(i),
                         prompt |-> prompt(i),
                         startTime |-> t,
                         outcome |-> Null]],
            !.results = [i \in DOMAIN rq.modelIds |->
                        IF provider(i) \in Providers THEN Null
                        ELSE Some([status |-> "fulfilled",
                                   value |-> ErrorEntry(rq, i, t - t,
                                       "Unknown provider for model: " \o rq.modelIds[i])])]])

\* modelIds.map(async (modelId) => ...) up to each callback's first network
\* await: sendToModel resolves the provider and either starts the vendor call
\* or throws "Unknown provider", which the callback's catch turns into an entry
StartDispatches(st, rq, t) ==
    LET prompt == EnhancedMessage(rq.enableWebSearch, rq.message, rq.searchResults)
        provider(i) == getModelProvider(st, rq.modelIds[i])
    IN Respond(
        [rq EXCEPT
            !.pc = "dispatching",
            !.calls = [i \in DOMAIN rq.modelIds |->
                        [state |-> IF provider(i) \in Providers THEN "pending" ELSE "settled",
                         invoked |-> provider(i) \in Providers,
                         provider |-> provider(i),
                         prompt |-> prompt,
                         startTime |-> t,
                         outcome |-> Null]],
            !.results = [i \in DOMAIN rq.modelIds |->
                        IF provider(i) \in Providers THEN Null
                        ELSE Some([status |-> "fulfilled",
                                   value |-> ErrorEntry(rq, i, t - t,
                                       "Unknown provider for model: " \o rq.modelIds[i])])]])

\* the handler from chatRequestSchema.parse to its first network await:
\* [store, req, conversations (those created), messages (those written)]
HandleChat(st, body, t) ==
    LET parsed == chatRequestSchema(body)
        base == [IdleRequest EXCEPT !.body = Some(body)]
    IN IF parsed = Null
       THEN [store |-> st, req |-> [base EXCEPT !.pc = "done", !.status = 400],
             conversations |-> << >>, messages |-> << >>]
       ELSE
       LET data == Val(parsed)
           resolved == ResolveConversation(st, data, t)
       IN IF ~resolved.found
          THEN [store |-> st, req |-> [base EXCEPT !.pc = "done", !.status = 404],
                conversations |-> << >>, messages |-> << >>]
          ELSE
          LET conversation == Val(resolved.conversation)
              user == createMessage(resolved.store,
                          [conversationId |-> conversation.id, role |-> "user",
                           content |-> data.message, modelId |-> Null,
                           provider |-> Null, responseTime |-> Null], t)
              rq == [base EXCEPT !.conversationId = conversation.id,
                                 !.created = resolved.created,
                                 !.message = data.message,
                                 !.modelIds = data.modelIds,
                                 !.enableWebSearch = data.enableWebSearch,
                                 !.written = <<user.value>>]
          IN [store |-> user.store,
              req |-> IF data.enableWebSearch
                      THEN [rq EXCEPT !.pc = "searching", !.searches = 1]
                      ELSE StartDispatches(user.store, rq, t),
              conversations |-> IF resolved.created THEN <<conversation>> ELSE << >>,
              messages |-> <<user.value>>]

\* the handler from the settling of searchWeb to its next network await
AfterSearch(st, rq, e, reply, t) ==
    LET found == searchWeb(e, reply, SearchCap)
    IN StartDispatches(st,
           [rq EXCEPT !.searchReply = Some(reply),
                      !.searchResults = IF found.threw THEN << >> ELSE found.value], t)

\* SettleDispatch with a plausible bug: the assistant message is saved in a
\* finally block, so a failed dispatch is persisted too
SettleDispatchPersistAll(st, rq, i, outcome, t) ==
    LET responseTime == t - rq.calls[i].startTime
        settled == [rq EXCEPT !.calls[i].state = "settled",
                              !.calls[i].outcome = Some(outcome)]
        response == IF outcome.ok THEN ExtractText(outcome.text) ELSE ""
        saved == createMessage(st,
                    [conversationId |-> rq.conversationId, role |-> "assistant",
                     content |-> response, modelId |-> Some(rq.modelIds[i]),
                     provider |-> Some(getModelProvider(st, rq.modelIds[i])),
                     responseTime |-> Some(responseTime)], t)
        entry == IF outcome.ok THEN SuccessEntry(rq, i, responseTime, response)
                 ELSE ErrorEntry(rq, i, responseTime, outcome.message)
    IN [store |-> saved.store,
        req |-> Respond([settled EXCEPT
                  !.results[i] = Some([status |-> "fulfilled", value |-> entry]),
                  !.written = Append(@, saved.value)]),
        messages |-> <<saved.value>>]

\* SettleDispatch with a plausible bug: a vendor call that failed is issued
\* once more before the dispatch gives up
SettleDispatchRetry(st, rq, i, outcome, t) ==
    LET responseTime == t - rq.calls[i].startTime
        settled == [rq EXCEPT !.calls[i].state = "settled",
                              !.calls[i].outcome = Some(outcome)]
    IN IF outcome.ok
       THEN LET response == ExtractText(outcome.text)
                saved == createMessage(st,
                            [conversationId |-> rq.conversationId, role |-> "assistant",
                             content |-> response, modelId |-> Some(rq.modelIds[i]),
                             provider |-> Some(getModelProvider(st, rq.modelIds[i])),
                             responseTime |-> Some(responseTime)], t)
            IN [store |-> saved.store,
                req |-> Respond([settled EXCEPT
                          !.results[i] = Some([status |-> "fulfilled",
                                               value |-> SuccessEntry(rq, i, responseTime, response)]),
                          !.written = Append(@, saved.value)]),
                messages |-> <<saved.value>>]
       ELSE IF rq.calls[i].outcome = Null
       THEN [store |-> st,
             req |-> [rq EXCEPT !.calls[i].outcome = Some(outcome)],
             messages |-> << >>]
       ELSE [store |-> st,
             req |-> Respond([settled EXCEPT
                       !.results[i] = Some([status |-> "fulfilled",
                                            value |-> ErrorEntry(rq, i, responseTime, outcome.message)])]),
             messages |-> << >>]

\* the callback of dispatch i from the settling of its vendor call to its end:
\* [store, req, messages (those written)]
SettleDispatch(st, rq, i, outcome, t) ==
    LET responseTime == t - rq.calls[i].startTime
        settled == [rq EXCEPT !.calls[i].state = "settled",
                              !.calls[i].outcome = Some(outcome)]
    IN IF outcome.ok
       THEN LET response == ExtractText(outcome.text)
                saved == createMessage(st,
                            [conversationId |-> rq.conversationId, role |-> "assistant",
                             content |-> response, modelId |-> Some(rq.modelIds[i]),
                             provider |-> Some(getModelProvider(st, rq.modelIds[i])),
                             responseTime |-> Some(responseTime)], t)
            IN [store |-> saved.store,
                req |-> Respond([settled EXCEPT
                          !.results[i] = Some([status |-> "fulfilled",
                                               value |-> SuccessEntry(rq, i, responseTime, response)]),
                          !.written = Append(@, saved.value)]),
                messages |-> <<saved.value>>]
       ELSE [store |-> st,
             req |-> Respond([settled EXCEPT
                       !.results[i] = Some([status |-> "fulfilled",
                                            value |-> ErrorEntry(rq, i, responseTime, outcome.message)])]),
             messages |-> << >>]

----------------------------------------------------------------------------
(* The registry routes (server/routes.ts) *)

\* POST /api/models {id, name, provider}; "" is a missing field:
\* [store, status, body]
PostModels(st, id, name, provider) ==
    IF id = "" \/ name = "" \/ provider = ""
    THEN [store |-> st, status |-> 400, body |-> Null]
    ELSE LET c == createModelConfig(st, [id |-> id, name |-> name,
                                         provider |-> provider, isCustom |-> TRUE])
         IN [store |-> c.store, status |-> 200, body |-> Some(c.value)]

\* DELETE /api/models/:id: [store, status]
DeleteModels(st, id) ==
    LET d == deleteModelConfig(st, id)
    IN [store |-> d.store, status |-> IF d.value THEN 200 ELSE 404]

----------------------------------------------------------------------------
(* POST /api/config/keys (server/routes.ts) *)

\* A validation slot with no request in it.  Of a request in flight the slot
\* holds what it was sent (body), the live test calls it has made (tests) and
\* what the test call ended with (outcome).
IdleKeyRequest ==
    [pc |-> "idle", body |-> Null, status |-> 0, isValid |-> FALSE,
     tests |-> 0, outcome |-> Null]

\* the handler from its start to the await of its test call; "" is a missing
\* field.  An unrecognised provider matches no case of the switch.
ValidateKeyStart(provider, apiKey) ==
    LET base == [IdleKeyRequest EXCEPT
                    !.body = Some([provider |-> provider, apiKey |-> apiKey])]
    IN IF provider = "" \/ apiKey = ""
       THEN [base EXCEPT !.pc = "done", !.status = 400]
       ELSE IF provider \in Providers
       THEN [base EXCEPT !.pc = "testing", !.tests = 1]
       ELSE [base EXCEPT !.pc = "done", !.status = 200, !.isValid = FALSE]

\* ValidateKeySettle with a plausible bug: isValid is set after the try block
ValidateKeySettleAlwaysValid(rq, ok) ==
    [rq EXCEPT !.pc = "done", !.status = 200, !.isValid = TRUE,
               !.outcome = Some(ok)]

\* the handler from the settling of its test call to res.json({valid})
ValidateKeySettle(rq, ok) ==
    [rq EXCEPT !.pc = "done", !.status = 200, !.isValid = ok,
               !.outcome = Some(ok)]

----------------------------------------------------------------------------
(* The chat client (MessageInput.tsx, ChatInterface.tsx, hooks/useChat.ts) *)

\* String.prototype.trim for strings whose only white space is the blank
RECURSIVE TrimStart(_)
TrimStart(s) ==
    IF Len(s) > 0 /\ SubSeq(s, 1, 1) = " " THEN TrimStart(SubSeq(s, 2, Len(s))) ELSE s

RECURSIVE TrimEnd(_)
TrimEnd(s) ==
    IF Len(s) > 0 /\ SubSeq(s, Len(s), Len(s)) = " "
    THEN TrimEnd(SubSeq(s, 1, Len(s) - 1)) ELSE s

Trim(s) == TrimEnd(TrimStart(s))

\* useChat.sendMessage(content, modelIds): the body handed to
\* apiClient.sendChatMessage, or Null when nothing is sent.  The function has
\* two parameters, so a third argument of a call is dropped.
sendMessage(content, modelIds, currentConversationId) ==
    IF Trim(content) = "" \/ Len(modelIds) = 0 THEN Null
    ELSE Some([message |-> Trim(content),
               modelIds |-> modelIds,
               conversationId |-> IF Truthy(currentConversationId)
                                  THEN currentConversationId ELSE Null,
               enableWebSearch |-> Null])

\* ChatInterface.handleSendMessage(message, enableWebSearch)
handleSendMessage(message, enableWebSearch, selectedModels, currentConversationId) ==
    IF Len(selectedModels) = 0 THEN Null
    ELSE sendMessage(message, selectedModels, currentConversationId)

\* MessageInput.handleSubmit with the text, the switch and the selection as
\* they are when the form is submitted
handleSubmit(message, enableWebSearch, selectedModels, isLoading, currentConversationId) ==
    IF Trim(message) = "" \/ Len(selectedModels) = 0 \/ isLoading THEN Null
    ELSE handleSendMessage(Trim(message), enableWebSearch, selectedModels,
                           currentConversationId)

----------------------------------------------------------------------------
(* Inputs *)

Messages == {"", "hi"}

\* "gpt-4o" is built in; "m1" resolves through the registry only
ChatModelIds == {"gpt-4o", "m1"}

ConversationIds == {Null} \cup {Some(n) : n \in 0..MaxConv}

\* the request bodies: every well-formed one, and some with an empty message
\* or an empty modelIds list
Bodies ==
    [message : Messages \ {""},
     modelIds : SeqsUpTo(ChatModelIds, MaxModels) \ {<< >>},
     conversationId : ConversationIds,
     enableWebSearch : {Null, Some(TRUE)}]
    \cup [message : {""}, modelIds : {<< >>, <<"gpt-4o">>},
          conversationId : {Null, Some(1)}, enableWebSearch : {Some(TRUE)}]
    \cup [message : Messages \ {""}, modelIds : {<< >>},
          conversationId : {Null, Some(1)}, enableWebSearch : {Some(TRUE)}]

\* the bodies of two requests in flight at once
PairBodies ==
    [message : {"hi"},
     modelIds : {<<"gpt-4o">>, <<"gpt-4o", "gpt-4o">>},
     conversationId : {Null, Some(1)},
     enableWebSearch : {Null}]

\* what POST /api/models is sent; "" is a missing field, "gpt-4o" is built in,
\* "gpt-x" is new and has a vendor prefix, "m1" and "m2" are new and have none
NewModelIds == {"", "gpt-4o", "gpt-x", "m1", "m2"}
NewModelNames == {"", "M"}
NewModelProviders == {"", "openai", "anthropic", "mistral"}

\* the model ids getModelProvider is asked about: those of the registry
\* routes, ids with the other vendor prefixes, and "gpt", which has no prefix
ResolveIds == (NewModelIds \ {""}) \cup {"claude-x", "gemini-x", "gpt"}

\* the bodies of the requests that search the web
SearchBodies ==
    [message : {"hi"},
     modelIds : {<<"gpt-4o">>},
     conversationId : {Null, Some(1)},
     enableWebSearch : {Some(TRUE)}]

\* the maxResults searchWeb is called with: the one handleChat passes, and
\* those smaller than what a backend can deliver
MaxResultsValues == (1..MaxItems) \cup {SearchCap}

\* a message of exactly fifty characters, and one of fifty-one
Chars50 == "abcdefghijklmnopqrstuvwxyzabcdefghijklmnopqrstuvwx"
Chars51 == Chars50 \o "y"

\* the bodies of the requests whose messages are around the title length
TitleBodies ==
    [message : {"hi", Chars50, Chars51},
     modelIds : {<<"gpt-4o">>},
     conversationId : {Null, Some(1)},
     enableWebSearch : {Null}]

\* what POST /api/config/keys is sent; "" is a missing field
KeyProviders == {"", "openai", "anthropic", "google", "mistral"}
ApiKeys == {"", "sk-1"}

\* the key validations that can be in flight at once
KeySlots == {"k1", "k2"}

\* what the user has selected and typed when the form is submitted
ClientMessages == {"", " ", "hi", " hi "}
ClientSelections == {<< >>, <<"gpt-4o">>, <<"gpt-4o", "m1">>}
ClientConversationIds == {Null, Some(1)}

\* the patches updateConversation is given
Patches == [title : {Null, Some("renamed")}]

\* the bodies of the requests followed to their answer
LiveBodies ==
    [message : {"hi"},
     modelIds : {<<"gpt-4o">>, <<"gpt-4o", "m1">>, <<"gpt-4o", "gpt-4o">>},
     conversationId : {Null, Some(1)},
     enableWebSearch : {Null, Some(TRUE)}]

\* the bodies of the requests for a model that only the registry resolves
RaceBodies ==
    [message : {"hi"},
     modelIds : {<<"m1">>, <<"m1", "gpt-4o">>},
     conversationId : {Null},
     enableWebSearch : {Null}]

\* the providers m1 is registered under
RaceProviders == {"openai", "anthropic"}

Environments == [GOOGLE_SEARCH_API_KEY : BOOLEAN, GOOGLE_SEARCH_ENGINE_ID : BOOLEAN]

\* the environments of the chat server: both search settings, or neither
ChatEnvironments ==
    {e \in Environments : e.GOOGLE_SEARCH_API_KEY = e.GOOGLE_SEARCH_ENGINE_ID}

----------------------------------------------------------------------------
(* The state machine *)

\* vendor calls a request may still make, each of which may write a message
Reserved(rq) ==
    IF rq.pc = "searching" THEN Len(rq.modelIds)
    ELSE Cardinality({i \in DOMAIN rq.calls : rq.calls[i].state = "pending"})

RECURSIVE SumReserved(_, _)
SumReserved(rqs, S) ==
    IF S = {} THEN 0
    ELSE LET r == CHOOSE r \in S : TRUE
         IN Reserved(rqs[r]) + SumReserved(rqs, S \ {r})

\* the bounds leave room for every message the requests in flight may write
WithinBounds(st, rqs) ==
    /\ st.conversationIdCounter - 1 <= MaxConv
    /\ st.messageIdCounter - 1 + SumReserved(rqs, DOMAIN rqs) <= MaxMsg

\* the identifiers handed out and the messages written, appended to the history
Record(h, conversations, messages) ==
    [h EXCEPT !.conversations = @ \o [j \in DOMAIN conversations |-> conversations[j].id],
              !.messages = @ \o [j \in DOMAIN messages |-> messages[j].id],
              !.live = @ \o messages]

Init ==
    /\ storage = MemStorage
    /\ now = 0
    /\ env \in ChatEnvironments
    /\ req = [r \in Slots |-> IdleRequest]
    /\ issued = [conversations |-> << >>, messages |-> << >>, live |-> << >>]

\* POST /api/chat arrives and runs to its first network await
ChatStart(r, body) ==
    /\ req[r].pc = "idle"
    /\ LET h == HandleChat(storage, body, now)
       IN /\ WithinBounds(h.store, [req EXCEPT ![r] = h.req])
          /\ storage' = h.store
          /\ req' = [req EXCEPT ![r] = h.req]
          /\ issued' = Record(issued, h.conversations, h.messages)
    /\ UNCHANGED <<now, env>>

\* the search backend answers (or fails); the dispatches start
SearchSettle(r, reply) ==
    /\ req[r].pc = "searching"
    /\ req' = [req EXCEPT ![r] = AfterSearch(storage, req[r], env, reply, now)]
    /\ UNCHANGED <<storage, now, env, issued>>

\* the vendor call of dispatch i answers (or fails)
AdapterSettle(r, i, outcome) ==
    /\ req[r].pc = "dispatching"
    /\ i \in DOMAIN req[r].calls
    /\ req[r].calls[i].state = "pending"
    /\ LET d == SettleDispatch(storage, req[r], i, outcome, now)
       IN /\ storage' = d.store
          /\ req' = [req EXCEPT ![r] = d.req]
          /\ issued' = Record(issued, << >>, d.messages)
    /\ UNCHANGED <<now, env>>

\* the response has been sent; the slot takes the next request
ChatClose(r) ==
    /\ req[r].pc = "done"
    /\ req' = [req EXCEPT ![r] = IdleRequest]
    /\ UNCHANGED <<storage, now, env, issued>>

\* storage.deleteConversation(id)
DeleteConversation(id) ==
    /\ storage' = deleteConversation(storage, id).store
    /\ issued' = [issued EXCEPT !.live = SelectSeq(@, LAMBDA m : m.conversationId # id)]
    /\ UNCHANGED <<now, env, req>>

\* POST /api/models {id, name, provider}
AddModel(id, name, provider) ==
    /\ storage' = PostModels(storage, id, name, provider).store
    /\ UNCHANGED <<now, env, req, issued>>

\* DELETE /api/models/:id
RemoveModel(id) ==
    /\ storage' = DeleteModels(storage, id).store
    /\ UNCHANGED <<now, env, req, issued>>

\* the wall clock advances
Tick ==
    /\ now < MaxClock
    /\ now' = now + 1
    /\ UNCHANGED <<storage, env, req, issued>>

Next ==
    \/ \E r \in DOMAIN req, body \in Bodies : ChatStart(r, body)
    \/ \E r \in DOMAIN req, reply \in BackendReplies : SearchSettle(r, reply)
    \/ \E r \in DOMAIN req, i \in 1..MaxModels, outcome \in VendorOutcomes :
          AdapterSettle(r, i, outcome)
    \/ \E r \in DOMAIN req : ChatClose(r)
    \/ \E id \in 1..MaxConv : DeleteConversation(id)
    \/ Tick

\* One chat request at a time, against the store and the clock; the registry
\* keeps its built-in models.
Spec == Init /\ [][Next]_vars

\* Two chat requests in flight at once, each for built-in models, no search.
InitPair ==
    /\ storage = MemStorage
    /\ now = 0
    /\ env \in {e \in ChatEnvironments : ~e.GOOGLE_SEARCH_API_KEY}
    /\ req = [r \in PairSlots |-> IdleRequest]
    /\ issued = [conversations |-> << >>, messages |-> << >>, live |-> << >>]

NextPair ==
    \/ \E r \in DOMAIN req, body \in PairBodies : ChatStart(r, body)
    \/ \E r \in DOMAIN req, i \in 1..MaxModels, outcome \in VendorOutcomes :
          AdapterSettle(r, i, outcome)
    \/ \E r \in DOMAIN req : ChatClose(r)
    \/ \E id \in 1..MaxConv : DeleteConversation(id)
    \/ Tick

SpecPair == InitPair /\ [][NextPair]_vars

\* The registry routes alone.
NextRegistry ==
    \/ \E id \in NewModelIds, name \in NewModelNames, provider \in NewModelProviders :
          AddModel(id, name, provider)
    \/ \E id \in NewModelIds \ {""} : RemoveModel(id)

SpecRegistry == Init /\ [][NextRegistry]_vars

\* Chat requests that search the web, under every setting of the search key
\* and the engine id.
InitSearch ==
    /\ storage = MemStorage
    /\ now = 0
    /\ env \in Environments
    /\ req = [r \in Slots |-> IdleRequest]
    /\ issued = [conversations |-> << >>, messages |-> << >>, live |-> << >>]

NextSearch ==
    \/ \E r \in DOMAIN req, body \in SearchBodies : ChatStart(r, body)
    \/ \E r \in DOMAIN req, reply \in BackendReplies : SearchSettle(r, reply)
    \/ \E r \in DOMAIN req, i \in 1..MaxModels, outcome \in VendorOutcomes :
          AdapterSettle(r, i, outcome)
    \/ \E r \in DOMAIN req : ChatClose(r)
    \/ Tick

SpecSearch == InitSearch /\ [][NextSearch]_vars

\* Chat requests with short and long messages, with and without a
\* conversation id.
NextTitle ==
    \/ \E r \in DOMAIN req, body \in TitleBodies : ChatStart(r, body)
    \/ \E r \in DOMAIN req, i \in 1..MaxModels, outcome \in VendorOutcomes :
          AdapterSettle(r, i, outcome)
    \/ \E r \in DOMAIN req : ChatClose(r)
    \/ \E id \in 1..MaxConv : DeleteConversation(id)
    \/ Tick

SpecTitle == Init /\ [][NextTitle]_vars

\* POST /api/config/keys arrives and runs to the await of its test call
KeysStart(k, provider, apiKey) ==
    /\ req[k].pc = "idle"
    /\ req' = [req EXCEPT ![k] = ValidateKeyStart(provider, apiKey)]
    /\ UNCHANGED <<storage, now, env, issued>>

\* the test call answers (ok) or fails
KeysSettle(k, ok) ==
    /\ req[k].pc = "testing"
    /\ req' = [req EXCEPT ![k] = ValidateKeySettle(req[k], ok)]
    /\ UNCHANGED <<storage, now, env, issued>>

\* the response has been sent; the slot takes the next request
KeysClose(k) ==
    /\ req[k].pc = "done"
    /\ req' = [req EXCEPT ![k] = IdleKeyRequest]
    /\ UNCHANGED <<storage, now, env, issued>>

\* Key validations alone, two at a time.
InitKeys ==
    /\ storage = MemStorage
    /\ now = 0
    /\ env \in ChatEnvironments
    /\ req = [k \in KeySlots |-> IdleKeyRequest]
    /\ issued = [conversations |-> << >>, messages |-> << >>, live |-> << >>]

NextKeys ==
    \/ \E k \in DOMAIN req, provider \in KeyProviders, apiKey \in ApiKeys :
          KeysStart(k, provider, apiKey)
    \/ \E k \in DOMAIN req, ok \in BOOLEAN : KeysSettle(k, ok)
    \/ \E k \in DOMAIN req : KeysClose(k)

SpecKeys == InitKeys /\ [][NextKeys]_vars

\* the user submits the form; the request the client sends, if any, arrives
ClientSubmit(r, message, enableWebSearch, selectedModels, currentConversationId) ==
    LET sent == handleSubmit(message, enableWebSearch, selectedModels,
                             req[r].pc # "idle", currentConversationId)
    IN /\ sent # Null
       /\ ChatStart(r, Val(sent))

\* Chat requests as the client sends them.
NextClient ==
    \/ \E r \in DOMAIN req, message \in ClientMessages, enableWebSearch \in BOOLEAN,
          selectedModels \in ClientSelections,
          currentConversationId \in ClientConversationIds :
          ClientSubmit(r, message, enableWebSearch, selectedModels, currentConversationId)
    \/ \E r \in DOMAIN req, i \in 1..MaxModels, outcome \in VendorOutcomes :
          AdapterSettle(r, i, outcome)
    \/ \E r \in DOMAIN req : ChatClose(r)
    \/ Tick

SpecClient == Init /\ [][NextClient]_vars

\* storage.updateConversation(id, updates)
UpdateConversation(id, updates) ==
    /\ storage' = updateConversation(storage, id, updates, now).store
    /\ UNCHANGED <<now, env, req, issued>>

\* The store under chat requests, updates and deletions.
NextStore ==
    \/ \E r \in DOMAIN req, body \in PairBodies : ChatStart(r, body)
    \/ \E r \in DOMAIN req, i \in 1..MaxModels, outcome \in VendorOutcomes :
          AdapterSettle(r, i, outcome)
    \/ \E r \in DOMAIN req : ChatClose(r)
    \/ \E id \in 1..MaxConv, updates \in Patches : UpdateConversation(id, updates)
    \/ \E id \in 1..MaxConv : DeleteConversation(id)
    \/ Tick

SpecStore == Init /\ [][NextStore]_vars

\* Chat requests whose search call and vendor calls all end: a call in flight
\* eventually answers or fails, and the event loop then runs its continuation.
NextLive ==
    \/ \E r \in DOMAIN req, body \in LiveBodies : ChatStart(r, body)
    \/ \E r \in DOMAIN req, reply \in BackendReplies : SearchSettle(r, reply)
    \/ \E r \in DOMAIN req, i \in 1..MaxModels, outcome \in VendorOutcomes :
          AdapterSettle(r, i, outcome)
    \/ \E r \in DOMAIN req : ChatClose(r)
    \/ Tick

SpecLive ==
    /\ Init
    /\ [][NextLive]_vars
    /\ WF_vars(\E r \in DOMAIN req, reply \in BackendReplies : SearchSettle(r, reply))
    /\ WF_vars(\E r \in DOMAIN req, i \in 1..MaxModels, outcome \in VendorOutcomes :
                  AdapterSettle(r, i, outcome))

\* Chat requests for a custom model while the registry routes add and remove
\* that model.
NextRace ==
    \/ \E r \in DOMAIN req, body \in RaceBodies : ChatStart(r, body)
    \/ \E r \in DOMAIN req, i \in 1..MaxModels, outcome \in VendorOutcomes :
          AdapterSettle(r, i, outcome)
    \/ \E r \in DOMAIN req : ChatClose(r)
    \/ \E provider \in RaceProviders : AddModel("m1", "M", provider)
    \/ RemoveModel("m1")

SpecRace == Init /\ [][NextRace]_vars

----------------------------------------------------------------------------
(* Claims *)

\* the request a slot holds, as it was sent
Body(r) == Val(req[r].body)

\* the envelope a slot's request was answered with
Envelope(r) == Val(req[r].envelope)

\* an envelope entry reports a success
IsSuccess(entry) == "error" \notin DOMAIN entry

\* C1: a chat request answered with an envelope has one entry per element of
\* its modelIds list, entry i carrying modelIds[i]; every request answered 200
\* has an envelope.
C1_EnvelopeMatchesModelIds ==
    \A r \in DOMAIN req :
        /\ req[r].status = 200 <=> req[r].envelope # Null
        /\ req[r].envelope # Null =>
              /\ Len(Envelope(r).responses) = Len(Body(r).modelIds)
              /\ \A i \in DOMAIN Body(r).modelIds :
                    Envelope(r).responses[i].modelId = Body(r).modelIds[i]

\* C1 witness: a request for the same model twice, answered with the first
\* dispatch failed and the second succeeded.
C1_Witness ==
    \E r \in DOMAIN req :
        /\ req[r].envelope # Null
        /\ Body(r).modelIds = <<"gpt-4o", "gpt-4o">>
        /\ ~IsSuccess(Envelope(r).responses[1])
        /\ IsSuccess(Envelope(r).responses[2])

\* C2: a dispatch whose vendor call answered has a success entry with the
\* text of that answer, whatever the other dispatches of the request did, and
\* the request it belongs to is answered 200 with that entry in the envelope.
C2_FaultIsolation ==
    \A r \in DOMAIN req : \A b \in DOMAIN req[r].calls :
        LET call == req[r].calls[b]
        IN (call.outcome # Null /\ Val(call.outcome).ok) =>
              /\ req[r].results[b] # Null
              /\ Val(req[r].results[b]).status = "fulfilled"
              /\ IsSuccess(Val(req[r].results[b]).value)
              /\ Val(req[r].results[b]).value.content = ExtractText(Val(call.outcome).text)
              /\ req[r].pc \in {"dispatching", "done"}
              /\ req[r].pc = "done" =>
                    /\ req[r].status = 200
                    /\ Envelope(r).responses[b] = Val(req[r].results[b]).value

\* C2 witness: model A's call failed, model B's call answered, the request is
\* answered.
C2_Witness ==
    \E r \in DOMAIN req :
        /\ req[r].pc = "done"
        /\ Len(req[r].calls) = 2
        /\ req[r].calls[1].outcome # Null /\ ~Val(req[r].calls[1].outcome).ok
        /\ req[r].calls[2].outcome # Null /\ Val(req[r].calls[2].outcome).ok

\* the assistant messages createMessage returned to a slot's request
AssistantWritten(r) == SelectSeq(req[r].written, LAMBDA m : m.role = "assistant")

\* message m is the stored form of envelope entry e of conversation c
Carries(m, e, c) ==
    /\ m.conversationId = c
    /\ m.modelId = Some(e.modelId)
    /\ m.content = e.content
    /\ m.responseTime = Some(e.responseTime)

\* C3: when a chat request is answered, the assistant messages it wrote
\* correspond one to one to the envelope entries without an error, each with
\* its entry's modelId, content and responseTime.
C3_AssistantPerSuccess ==
    \A r \in DOMAIN req :
        req[r].envelope # Null =>
            LET ok == {i \in DOMAIN Envelope(r).responses : IsSuccess(Envelope(r).responses[i])}
                written == AssistantWritten(r)
            IN /\ Len(written) = Cardinality(ok)
               /\ \E f \in [DOMAIN written -> ok] :
                     /\ \A j, k \in DOMAIN written : f[j] = f[k] => j = k
                     /\ \A j \in DOMAIN written :
                           Carries(written[j], Envelope(r).responses[f[j]],
                                   Envelope(r).conversationId)

\* C3 witness: a request answered with one failed and one successful entry,
\* which wrote one assistant message.
C3_Witness ==
    \E r \in DOMAIN req :
        /\ req[r].envelope # Null
        /\ \E i, j \in DOMAIN Envelope(r).responses :
              /\ IsSuccess(Envelope(r).responses[i])
              /\ ~IsSuccess(Envelope(r).responses[j])
        /\ Len(AssistantWritten(r)) = 1

\* slot r takes a request in this step
Arrives(r) == req[r].pc = "idle" /\ req'[r].pc # "idle"

\* C4: a chat request that passes the schema and supplies a conversationId
\* which is not the id of a stored conversation is answered 404 and leaves
\* the store as it was.
C4_UnknownConversationRejected ==
    [][\A r \in DOMAIN req :
          Arrives(r) =>
             LET body == Val(req'[r].body)
             IN (/\ chatRequestSchema(body) # Null
                 /\ body.conversationId # Null
                 /\ Val(body.conversationId) \notin DOMAIN storage.conversations)
                => (req'[r].status = 404 /\ storage' = storage)]_vars

\* C5: POST /api/models with an id the registry already holds is refused and
\* leaves the registry as it was.
C5_DuplicateAddRejected ==
    [][\A id \in NewModelIds, name \in NewModelNames, provider \in NewModelProviders :
          (AddModel(id, name, provider) /\ id \in DOMAIN storage.modelConfigs)
          => /\ PostModels(storage, id, name, provider).status # 200
             /\ storage'.modelConfigs = storage.modelConfigs]_vars

\* C6: a chat request with an empty message or an empty modelIds list is
\* answered 400 in the step it arrives in, and that step changes nothing in
\* the store, assigns no identifier, and starts no search and no vendor call.
C6_InvalidRejectedWithoutEffect ==
    [][\A r \in DOMAIN req :
          Arrives(r) =>
             LET body == Val(req'[r].body)
             IN (body.message = "" \/ body.modelIds = << >>)
                => /\ req'[r].pc = "done"
                   /\ req'[r].status = 400
                   /\ storage' = storage
                   /\ issued' = issued
                   /\ req'[r].searches = 0
                   /\ req'[r].calls = << >>
                   /\ req'[r].written = << >>]_vars

\* C6 witness: a request with a message and no model, answered 400 by a
\* server that holds a conversation.
C6_Witness ==
    \E r \in DOMAIN req :
        /\ req[r].pc = "done"
        /\ req[r].status = 400
        /\ Body(r).message = "hi"
        /\ Body(r).modelIds = << >>
        /\ DOMAIN storage.conversations # {}

\* C7: with enableWebSearch, once the search call has failed or delivered
\* nothing, every model of the request is dispatched with the raw message as
\* its prompt, an entry has an error only if its vendor call failed or its
\* provider is unknown, and the request is answered 200 with N entries.
C7_SearchFailureDegrades ==
    \A r \in DOMAIN req :
        (/\ req[r].body # Null
         /\ Body(r).enableWebSearch = Some(TRUE)
         /\ req[r].searchReply # Null
         /\ (Val(req[r].searchReply) = Null \/ req[r].searchResults = << >>))
        => /\ req[r].pc \in {"dispatching", "done"}
           /\ req[r].searchResults = << >>
           /\ Len(req[r].calls) = Len(Body(r).modelIds)
           /\ \A i \in DOMAIN req[r].calls :
                 /\ req[r].calls[i].prompt = Body(r).message
                 /\ (req[r].results[i] # Null /\ ~IsSuccess(Val(req[r].results[i]).value))
                    => \/ ~req[r].calls[i].invoked
                       \/ /\ req[r].calls[i].outcome # Null
                          /\ ~Val(req[r].calls[i].outcome).ok
           /\ req[r].pc = "done" =>
                 /\ req[r].status = 200
                 /\ Len(Envelope(r).responses) = Len(Body(r).modelIds)

\* C7 witness: a request with enableWebSearch for two models, whose search
\* call failed, answered with a successful entry.
C7_Witness ==
    \E r \in DOMAIN req :
        /\ req[r].pc = "done"
        /\ req[r].status = 200
        /\ Body(r).enableWebSearch = Some(TRUE)
        /\ req[r].searchReply = Some(Null)
        /\ Len(Envelope(r).responses) = 2
        /\ \E i \in 1..2 : IsSuccess(Envelope(r).responses[i])

\* C8: every stored message belongs to a stored conversation.
C8_MessagesReferenceConversation ==
    \A k \in DOMAIN storage.messages :
        storage.messages[k].conversationId \in DOMAIN storage.conversations

StrictlyIncreasing(s) == \A j, k \in DOMAIN s : j < k => s[j] < s[k]

\* C9: the conversation identifiers handed out are strictly increasing in the
\* order they were handed out, and so are the message identifiers.
C9_IdentifiersIncrease ==
    /\ StrictlyIncreasing(issued.conversations)
    /\ StrictlyIncreasing(issued.messages)

\* C9 witness: two requests in flight, after two conversations were created
\* and the first was deleted.
C9_Witness ==
    /\ issued.conversations = <<1, 2>>
    /\ DOMAIN storage.conversations = {2}
    /\ Len(issued.messages) >= 2
    /\ \A r \in DOMAIN req : req[r].pc = "dispatching"

\* C10: getMessagesByConversation(c) is the sequence of the messages written
\* with conversationId c and not deleted since, in the order they were written.
C10_ListInAppendOrder ==
    \A c \in 1..MaxConv :
        getMessagesByConversation(storage, c)
            = SelectSeq(issued.live, LAMBDA m : m.conversationId = c)

\* C10 witness: a conversation lists two messages of equal createdAt and a
\* later one, after messages of another conversation were deleted.
C10_Witness ==
    \E c \in 1..MaxConv :
        LET ms == getMessagesByConversation(storage, c)
        IN /\ Len(ms) >= 3
           /\ ms[1].createdAt = ms[2].createdAt
           /\ ms[2].createdAt < ms[3].createdAt
           /\ Len(issued.live) < Len(issued.messages)

\* the stored messages that do not belong to conversation id
MessagesOfOthers(st, id) == SelectSeq(st.messages, LAMBDA m : m.conversationId # id)

\* C11: in every reachable store and for every id, deleteConversation(id)
\* returns whether conversation id was stored (true for a stored one, false
\* for an absent one); after it getConversation(id) is absent and
\* getMessagesByConversation(id) is empty, and every other conversation and
\* every message of another conversation is as it was.
C11_DeleteFrame ==
    \A id \in 1..MaxConv :
        LET d == deleteConversation(storage, id)
        IN /\ d.value = (id \in DOMAIN storage.conversations)
           /\ getConversation(d.store, id) = Null
           /\ getMessagesByConversation(d.store, id) = << >>
           /\ DOMAIN d.store.conversations = DOMAIN storage.conversations \ {id}
           /\ \A c \in DOMAIN storage.conversations \ {id} :
                 /\ getConversation(d.store, c) = getConversation(storage, c)
                 /\ getMessagesByConversation(d.store, c)
                       = getMessagesByConversation(storage, c)
           /\ MessagesOfOthers(d.store, id) = MessagesOfOthers(storage, id)

\* C11 witness: the second of two conversations was deleted with its
\* messages, and the first still lists its two messages.
C11_Witness ==
    /\ issued.conversations = <<1, 2>>
    /\ DOMAIN storage.conversations = {1}
    /\ Len(getMessagesByConversation(storage, 1)) >= 2
    /\ getMessagesByConversation(storage, 2) = << >>
    /\ Len(issued.live) < Len(issued.messages)

\* dispatch i of slot r failed: sendToModel threw before any vendor call, or
\* the vendor call was rejected
DispatchFailed(r, i) ==
    \/ ~req[r].calls[i].invoked
    \/ /\ req[r].calls[i].outcome # Null
       /\ ~Val(req[r].calls[i].outcome).ok

\* the message of the error dispatch i of slot r failed with
FailureMessage(r, i) ==
    IF ~req[r].calls[i].invoked
    THEN "Unknown provider for model: " \o req[r].modelIds[i]
    ELSE Val(req[r].calls[i].outcome).message

\* C12: a dispatch that failed (its vendor call was rejected, as it is when
\* the key is missing, or its provider is unknown) has the entry {modelId,
\* content "", responseTime, error: the failure's message}; a dispatch that
\* succeeded has an entry with the reply as content and no error field; once
\* every dispatch has its entry the request is answered 200 with these entries.
C12_FailureEntry ==
    \A r \in DOMAIN req : \A i \in DOMAIN req[r].calls :
        req[r].results[i] # Null =>
            LET e == Val(req[r].results[i]).value
            IN /\ Val(req[r].results[i]).status = "fulfilled"
               /\ {"modelId", "content", "responseTime"} \subseteq DOMAIN e
               /\ e.modelId = Body(r).modelIds[i]
               /\ e.responseTime \in 0..(now - req[r].calls[i].startTime)
               /\ IF DispatchFailed(r, i)
                  THEN /\ e.content = ""
                       /\ "error" \in DOMAIN e
                       /\ e.error = FailureMessage(r, i)
                  ELSE /\ e.content = ExtractText(Val(req[r].calls[i].outcome).text)
                       /\ e.content # ""
                       /\ "error" \notin DOMAIN e
               /\ (\A j \in DOMAIN req[r].results : req[r].results[j] # Null)
                  => /\ req[r].pc = "done"
                     /\ req[r].status = 200
                     /\ Envelope(r).conversationId = req[r].conversationId
                     /\ Envelope(r).responses[i] = e

\* C12 witness: a request answered 200 whose first dispatch was rejected by
\* the vendor and whose second has an unknown provider.
C12_Witness ==
    \E r \in DOMAIN req :
        /\ req[r].pc = "done"
        /\ req[r].status = 200
        /\ Len(req[r].calls) = 2
        /\ req[r].calls[1].invoked /\ DispatchFailed(r, 1)
        /\ ~req[r].calls[2].invoked
        /\ Envelope(r).responses[1].error = "rate limited"
        /\ Envelope(r).responses[2].error = "Unknown provider for model: m1"

\* a vendor call is in flight for a position exactly when it was issued and
\* has not ended, and none was issued for an unknown provider
CallsIssuedOnce(rq) ==
    \A i \in DOMAIN rq.calls :
        /\ rq.calls[i].invoked <=> rq.calls[i].provider \in Providers
        /\ rq.calls[i].provider = "unknown" => rq.calls[i].outcome = Null
        /\ rq.calls[i].state = "pending"
              <=> (rq.calls[i].invoked /\ rq.calls[i].outcome = Null)

\* C13: within one chat request each position of modelIds has at most one
\* vendor call: a call that has ended, failed or not, is never issued again,
\* and a position whose provider is unknown has none.
C13_NoRetry ==
    [][\A r \in DOMAIN req :
          /\ CallsIssuedOnce(req[r])
          /\ CallsIssuedOnce(req'[r])
          /\ \A i \in DOMAIN req[r].calls :
                (req[r].calls[i].state = "settled" /\ i \in DOMAIN req'[r].calls)
                => req'[r].calls[i] = req[r].calls[i]]_vars

\* C13 witness: a request answered after its first position had no vendor
\* call (unknown provider) and the vendor call of its second failed; it wrote
\* the user message only.
C13_Witness ==
    \E r \in DOMAIN req :
        /\ req[r].pc = "done"
        /\ req[r].modelIds = <<"m1", "gpt-4o">>
        /\ ~req[r].calls[1].invoked
        /\ req[r].calls[2].invoked
        /\ req[r].calls[2].outcome = Some([ok |-> FALSE, message |-> "rate limited"])
        /\ Len(req[r].written) = 1

\* C14: in every reachable registry and for every id, deleteModelConfig(id)
\* returns true and removes the entry exactly when the registry held an entry
\* with that id, and DELETE /api/models/:id then answers 200; otherwise it
\* returns false, the route answers 404 and the registry is as it was.  In
\* both cases every other entry is as it was.
C14_RemoveReportsPresence ==
    \A id \in NewModelIds \ {""} :
        LET present == id \in DOMAIN storage.modelConfigs
            d == deleteModelConfig(storage, id)
            route == DeleteModels(storage, id)
        IN /\ d.value = present
           /\ route.store = d.store
           /\ route.status = (IF present THEN 200 ELSE 404)
           /\ ~present => d.store.modelConfigs = storage.modelConfigs
           /\ DOMAIN d.store.modelConfigs = DOMAIN storage.modelConfigs \ {id}
           /\ \A k \in DOMAIN d.store.modelConfigs :
                 d.store.modelConfigs[k] = storage.modelConfigs[k]

\* C14 witness: the built-in gpt-4o was removed while the custom m1 and the
\* other built-in models stayed.
C14_Witness ==
    /\ "gpt-4o" \notin DOMAIN storage.modelConfigs
    /\ "m1" \in DOMAIN storage.modelConfigs
    /\ storage.modelConfigs["m1"].isCustom
    /\ "gpt-4.1" \in DOMAIN storage.modelConfigs

\* the vendor a model id's prefix names, or Null
PrefixVendor(modelId) ==
    IF Len(modelId) >= 4 /\ SubSeq(modelId, 1, 4) = "gpt-" THEN Some("openai")
    ELSE IF Len(modelId) >= 7 /\ SubSeq(modelId, 1, 7) = "claude-" THEN Some("anthropic")
    ELSE IF Len(modelId) >= 7 /\ SubSeq(modelId, 1, 7) = "gemini-" THEN Some("google")
    ELSE Null

\* C15: getModelProvider(modelId) is openai, anthropic or google when modelId
\* starts with "gpt-", "claude-" or "gemini-", whatever the registry holds;
\* otherwise it is the provider of the registry entry with that id, and
\* "unknown" when there is none.
C15_ResolveProvider ==
    \A modelId \in ResolveIds :
        getModelProvider(storage, modelId) =
            IF PrefixVendor(modelId) # Null THEN Val(PrefixVendor(modelId))
            ELSE IF modelId \in DOMAIN storage.modelConfigs
                 THEN storage.modelConfigs[modelId].provider
                 ELSE "unknown"

\* C15 witness: the registry holds gpt-x under anthropic and m1 under mistral
\* and does not hold m2; the three ids resolve to openai, mistral and unknown.
C15_Witness ==
    /\ "gpt-x" \in DOMAIN storage.modelConfigs
    /\ storage.modelConfigs["gpt-x"].provider = "anthropic"
    /\ "m1" \in DOMAIN storage.modelConfigs
    /\ "m2" \notin DOMAIN storage.modelConfigs
    /\ getModelProvider(storage, "gpt-x") = "openai"
    /\ getModelProvider(storage, "m1") = "mistral"
    /\ getModelProvider(storage, "m2") = "unknown"

\* C16: for every entry of the registry, built in or custom,
\* getModelProvider(entry.id) is entry.provider.
C16_RegisteredProviderResolves ==
    \A id \in DOMAIN storage.modelConfigs :
        getModelProvider(storage, id) = storage.modelConfigs[id].provider

\* C17: whichever backend the environment selects and whatever that backend
\* delivers, be it more than handleChat asks for, searchWeb(query, maxResults)
\* returns at most maxResults results.
C17_SearchCapped ==
    \A reply \in BackendReplies \cup {Some([j \in 1..(SearchCap + 1) |-> PageItem(j)])},
       maxResults \in MaxResultsValues :
        Len(searchWeb(env, reply, maxResults).value) <= maxResults

\* C18: under every setting of the search key and the engine id, and whether
\* the selected backend delivers or fails, searchWeb(query, maxResults) does
\* not throw, and it returns the empty list when the backend failed.
C18_SearchNeverThrows ==
    \A reply \in BackendReplies, maxResults \in MaxResultsValues :
        LET found == searchWeb(env, reply, maxResults)
        IN /\ ~found.threw
           /\ reply = Null => found.value = << >>

\* C18 witness: with the key set and the engine id not set, the search of a
\* chat request failed in transport and the request went on with no results.
C18_Witness ==
    \E r \in DOMAIN req :
        /\ env.GOOGLE_SEARCH_API_KEY /\ ~env.GOOGLE_SEARCH_ENGINE_ID
        /\ req[r].searchReply = Some(Null)
        /\ ~searchWeb(env, Null, SearchCap).threw
        /\ req[r].searchResults = << >>
        /\ req[r].pc = "dispatching"

\* the title a conversation created for a message is to have
ExpectedTitle(message) ==
    IF Len(message) <= 50 THEN message ELSE SubSeq(message, 1, 50) \o "..."

\* C19: a chat request that passes the schema and carries no conversationId
\* creates exactly one conversation, titled with the message if it has at most
\* 50 characters and with its first 50 characters followed by "..." otherwise;
\* a request that carries the id of a stored conversation creates none, and
\* no later step of a request creates one.
C19_ConversationCreation ==
    [][/\ \A r \in DOMAIN req :
             Arrives(r) =>
                LET body == Val(req'[r].body)
                IN /\ (chatRequestSchema(body) # Null /\ body.conversationId = Null)
                      => \E id \in DOMAIN storage'.conversations :
                            /\ id \notin DOMAIN storage.conversations
                            /\ DOMAIN storage'.conversations
                                  = DOMAIN storage.conversations \cup {id}
                            /\ storage'.conversations[id].title = ExpectedTitle(body.message)
                            /\ req'[r].conversationId = id
                            /\ \A c \in DOMAIN storage.conversations :
                                  storage'.conversations[c] = storage.conversations[c]
                   /\ (/\ body.conversationId # Null
                       /\ Val(body.conversationId) \in DOMAIN storage.conversations)
                      => /\ storage'.conversations = storage.conversations
                         /\ chatRequestSchema(body) # Null
                               => req'[r].conversationId = Val(body.conversationId)
       /\ (\A r \in DOMAIN req : ~Arrives(r))
             => DOMAIN storage'.conversations \subseteq DOMAIN storage.conversations]_vars

\* C19 witness: one conversation is titled with a message of 50 characters,
\* another with the first 50 characters of a message of 51 and "...", and the
\* request in flight carried the id of the first and created none.
C19_Witness ==
    \E r \in DOMAIN req :
        /\ DOMAIN storage.conversations = {1, 2}
        /\ storage.conversations[1].title = Chars50
        /\ storage.conversations[2].title = Chars50 \o "..."
        /\ req[r].pc = "dispatching"
        /\ Body(r).conversationId = Some(1)
        /\ issued.conversations = <<1, 2>>

\* C20: every stored message of role user has modelId, provider and
\* responseTime null, and every stored message of role assistant has all
\* three set.
C20_RoleFields ==
    \A k \in DOMAIN storage.messages :
        LET m == storage.messages[k]
        IN /\ m.role \in {"user", "assistant"}
           /\ m.role = "user"
                 => (m.modelId = Null /\ m.provider = Null /\ m.responseTime = Null)
           /\ m.role = "assistant"
                 => (m.modelId # Null /\ m.provider # Null /\ m.responseTime # Null)

\* C20 witness: the store holds a user message and an assistant message of
\* gpt-4o with provider openai and a response time of 0.
C20_Witness ==
    \E j, k \in DOMAIN storage.messages :
        /\ storage.messages[j].role = "user"
        /\ storage.messages[k].role = "assistant"
        /\ storage.messages[k].modelId = Some("gpt-4o")
        /\ storage.messages[k].provider = Some("openai")
        /\ storage.messages[k].responseTime = Some(0)

\* C21: a key validation is answered {valid: true} only if its provider is
\* openai, anthropic or google and the one test call it made succeeded; a
\* failed test call or an unrecognised provider is answered 200 {valid: false};
\* a request without provider or apiKey is answered 400 with no test call; no
\* validation makes more than one test call, and the store stays as it was.
C21_KeyValidation ==
    /\ storage = MemStorage
    /\ \A k \in DOMAIN req :
          /\ req[k].tests <= 1
          /\ req[k].pc = "done" =>
                LET body == Val(req[k].body)
                    missing == body.provider = "" \/ body.apiKey = ""
                IN /\ missing => (req[k].status = 400 /\ req[k].tests = 0)
                   /\ ~missing => req[k].status = 200
                   /\ (req[k].status = 200 /\ req[k].isValid)
                         <=> (/\ ~missing
                              /\ body.provider \in {"openai", "anthropic", "google"}
                              /\ req[k].tests = 1
                              /\ req[k].outcome = Some(TRUE))
                   /\ (~missing /\ body.provider \notin {"openai", "anthropic", "google"})
                         => req[k].tests = 0

\* C21 witness: one validation was answered valid after its test call
\* succeeded, the other was answered invalid for an unrecognised provider.
C21_Witness ==
    /\ req["k1"].pc = "done" /\ req["k1"].isValid
    /\ Val(req["k1"].body).provider = "anthropic"
    /\ req["k2"].pc = "done" /\ req["k2"].status = 200 /\ ~req["k2"].isValid
    /\ Val(req["k2"].body).provider = "mistral"

\* C22: a form submitted with the web-search switch on sends a chat request
\* with enableWebSearch true; submitted with the switch off it sends one with
\* enableWebSearch false or absent.
C22_SwitchReachesRequest ==
    [][\A r \in DOMAIN req, message \in ClientMessages, enableWebSearch \in BOOLEAN,
          selectedModels \in ClientSelections,
          currentConversationId \in ClientConversationIds :
          ClientSubmit(r, message, enableWebSearch, selectedModels, currentConversationId)
          => IF enableWebSearch
             THEN Val(req'[r].body).enableWebSearch = Some(TRUE)
             ELSE Val(req'[r].body).enableWebSearch \in {Null, Some(FALSE)}]_vars

\* C23: in every reachable store, updateConversation(id, patch) of a stored
\* conversation stores and returns it with the patch applied, id and
\* createdAt as they were and updatedAt not earlier than before, and leaves
\* the other conversations and the messages alone; of an absent id it returns
\* absent and leaves the store as it was.
C23_UpdateFrame ==
    \A id \in 1..MaxConv, updates \in Patches :
        LET u == updateConversation(storage, id, updates, now)
        IN IF id \in DOMAIN storage.conversations
           THEN LET old == storage.conversations[id]
                    new == Val(u.value)
                IN /\ u.value # Null
                   /\ getConversation(u.store, id) = u.value
                   /\ new.id = id
                   /\ new.createdAt = old.createdAt
                   /\ new.updatedAt >= old.updatedAt
                   /\ new.title = (IF updates.title = Null THEN old.title
                                   ELSE Val(updates.title))
                   /\ DOMAIN u.store.conversations = DOMAIN storage.conversations
                   /\ \A c \in DOMAIN storage.conversations \ {id} :
                         u.store.conversations[c] = storage.conversations[c]
                   /\ u.store.messages = storage.messages
                   /\ u.store.modelConfigs = storage.modelConfigs
           ELSE u.value = Null /\ u.store = storage

\* C23 witness: conversation 1 was renamed after the clock had advanced, and
\* conversation 2 and the messages are still there.
C23_Witness ==
    /\ DOMAIN storage.conversations = {1, 2}
    /\ storage.conversations[1].title = "renamed"
    /\ storage.conversations[1].updatedAt > storage.conversations[1].createdAt
    /\ storage.conversations[2].title = "hi"
    /\ Len(storage.messages) >= 2

\* the request of slot r was accepted: it passed the schema and its
\* conversation was found or created
Accepted(r) == req[r].pc \in {"searching", "dispatching", "done"} /\ req[r].status \in {0, 200}

\* the snippet block rendered from a list of search results
SnippetBlock(searchResults) ==
    "\n\nContext from web search:\n"
    \o Join([j \in DOMAIN searchResults |->
               searchResults[j].title \o ": " \o searchResults[j].snippet], "\n")

\* C24: an accepted chat request makes one search call if enableWebSearch is
\* true and none otherwise, whatever the number of its models; no dispatch has
\* started while the search is pending; the results kept are those of
\* searchWeb with cap 5; and every model of the request has the same prompt:
\* the raw message when search is off or gave nothing, else the raw message
\* followed by the snippet block.
C24_SearchOnceThenSamePrompt ==
    \A r \in DOMAIN req :
        Accepted(r) =>
            LET enabled == Body(r).enableWebSearch = Some(TRUE)
            IN /\ req[r].searches = (IF enabled THEN 1 ELSE 0)
               /\ req[r].pc = "searching" => (enabled /\ req[r].calls = << >>)
               /\ (enabled /\ req[r].searchReply = Null) => req[r].calls = << >>
               /\ (enabled /\ req[r].searchReply # Null)
                     => req[r].searchResults
                           = (LET found == searchWeb(env, Val(req[r].searchReply), 5)
                              IN IF found.threw THEN << >> ELSE found.value)
               /\ ~enabled => (req[r].searchReply = Null /\ req[r].searchResults = << >>)
               /\ \A i \in DOMAIN req[r].calls :
                     req[r].calls[i].prompt
                        = IF enabled /\ req[r].searchResults # << >>
                          THEN Body(r).message \o SnippetBlock(req[r].searchResults)
                          ELSE Body(r).message

\* C24 witness: a request for two models made one search, which delivered a
\* result, and both models have the message with the snippet block as prompt.
C24_Witness ==
    \E r \in DOMAIN req :
        /\ req[r].pc = "dispatching"
        /\ req[r].searches = 1
        /\ Len(req[r].searchResults) = 1
        /\ Len(req[r].calls) = 2
        /\ req[r].calls[1].prompt = "hi\n\nContext from web search:\nT1: S"
        /\ req[r].calls[2].prompt = req[r].calls[1].prompt

\* every dispatch of slot r has settled
AllSettled(r) ==
    /\ Len(req[r].calls) = Len(Body(r).modelIds)
    /\ \A i \in DOMAIN req[r].calls :
          /\ req[r].calls[i].state = "settled"
          /\ req[r].results[i] # Null

\* C25: a chat request has its envelope only when every one of its dispatches
\* has settled, and, the search call and the vendor calls all ending, every
\* accepted request comes to have its envelope.
C25_EnvelopeAfterAllSettled ==
    /\ [](\A r \in DOMAIN req : req[r].envelope # Null => AllSettled(r))
    /\ \A r \in Slots : Accepted(r) ~> (req[r].pc = "done" /\ req[r].envelope # Null)

\* C25 witness: a request with search for two models has its envelope after
\* one vendor call failed and the other dispatch had an unknown provider.
C25_Witness ==
    \E r \in DOMAIN req :
        /\ req[r].envelope # Null
        /\ req[r].searches = 1
        /\ Body(r).modelIds = <<"gpt-4o", "m1">>
        /\ AllSettled(r)
        /\ req[r].calls[1].outcome = Some([ok |-> FALSE, message |-> "rate limited"])

\* C26: once a chat request dispatches, the vendor call of every position
\* with a known provider has been started, all in the same step, whatever the
\* other calls have done since; and every call that is pending can settle at
\* once, with any outcome, whatever the state of the others.
C26_AllStartedIndependently ==
    \A r \in DOMAIN req :
        (Accepted(r) /\ req[r].pc # "searching") =>
            /\ Len(req[r].calls) = Len(Body(r).modelIds)
            /\ \A i \in DOMAIN req[r].calls :
                  /\ req[r].calls[i].provider \in Providers
                        => (/\ req[r].calls[i].invoked
                            /\ req[r].calls[i].state \in {"pending", "settled"})
                  /\ req[r].calls[i].startTime = req[r].calls[1].startTime
                  /\ (req[r].calls[i].provider \in Providers /\ req[r].calls[i].outcome = Null)
                        => \A outcome \in VendorOutcomes :
                              ENABLED AdapterSettle(r, i, outcome)

\* C26 witness: the call of the second model has answered and its assistant
\* message is stored while the call of the first model is still pending.
C26_Witness ==
    \E r \in DOMAIN req :
        /\ req[r].pc = "dispatching"
        /\ Len(req[r].calls) = 2
        /\ req[r].calls[1].state = "pending"
        /\ req[r].calls[2].outcome # Null /\ Val(req[r].calls[2].outcome).ok
        /\ \E k \in DOMAIN storage.messages :
              /\ storage.messages[k].role = "assistant"
              /\ storage.messages[k].conversationId = req[r].conversationId
              /\ storage.messages[k] = req[r].written[Len(req[r].written)]

\* the positions of message m in the list ms
PositionsOf(m, ms) == {k \in DOMAIN ms : ms[k] = m}

C28_RecordedProviderIsInvoked ==
    \A r \in DOMAIN req :
        \A j \in DOMAIN req[r].written :
            req[r].written[j].role = "assistant" =>
                /\ req[r].written[j].provider \in {Some(p) : p \in Providers}
                /\ \E i \in DOMAIN req[r].calls :
                      /\ req[r].calls[i].invoked
                      /\ req[r].calls[i].outcome # Null
                      /\ Val(req[r].calls[i].outcome).ok
                      /\ req[r].written[j].modelId = Some(req[r].modelIds[i])
                      /\ req[r].written[j].provider = Some(req[r].calls[i].provider)

\* this step is a step of the chat request of slot r, which was accepted for
\* a conversation that was stored when it arrived
StepOnExisting(r) ==
    /\ req'[r] # req[r]
    /\ req'[r].body # Null
    /\ req'[r].pc \in {"searching", "dispatching", "done"}
    /\ req'[r].status \in {0, 200}
    /\ ~req'[r].created

\* C29: a step of a chat request on an existing conversation leaves the
\* conversations (that conversation's title, createdAt and updatedAt
\* included) and the registry as they were, and keeps every stored message,
\* adding only messages of that conversation at the end.
C29_ChatOnlyAppends ==
    [][\A r \in DOMAIN req :
          StepOnExisting(r) =>
             /\ storage'.conversations = storage.conversations
             /\ storage'.modelConfigs = storage.modelConfigs
             /\ storage'.conversationIdCounter = storage.conversationIdCounter
             /\ Len(storage'.messages) >= Len(storage.messages)
             /\ SubSeq(storage'.messages, 1, Len(storage.messages)) = storage.messages
             /\ \A k \in (Len(storage.messages) + 1)..Len(storage'.messages) :
                   storage'.messages[k].conversationId = req'[r].conversationId]_vars

\* C29 witness: a request on conversation 1, which it did not create, was
\* answered after it had stored a user and an assistant message later than
\* the conversation's updatedAt.
C29_Witness ==
    \E r \in DOMAIN req :
        /\ req[r].pc = "done"
        /\ ~req[r].created
        /\ Body(r).conversationId = Some(1)
        /\ 1 \in DOMAIN storage.conversations
        /\ Len(req[r].written) = 2
        /\ storage.conversations[1].updatedAt < req[r].written[1].createdAt
        /\ storage.conversations[1].updatedAt = storage.conversations[1].createdAt

\* C30: whatever the registry routes have done, every seeded model is still
\* in the registry, with isCustom false and the provider it was seeded with.
C30_BuiltInsStay ==
    \A id \in DOMAIN initializeDefaultModels :
        /\ id \in DOMAIN storage.modelConfigs
        /\ ~storage.modelConfigs[id].isCustom
        /\ storage.modelConfigs[id].provider = initializeDefaultModels[id].provider

====
